---- MODULE Spec2Model ----
(***************************************************************************)
(* Host-side register-access and DMA-control protocol of the Coyote jigsaw *)
(* examples.                                                               *)
(*   indirect variant : examples/jigsaw_minus_nw/sw/src/main.cpp           *)
(*   baseline variant : examples/jigsaw_baseline/sw/src/main.cpp           *)
(*   aes variant      : sw/examples/aes_host_baseline/main.cpp             *)
(* The host is one thread; each statement that touches a register or the   *)
(* mailbox region is one step.  The device (mailbox request server and DMA *)
(* engine) is the environment: it serves a request some time after the     *)
(* trigger and completes a transfer some time after the command.           *)
(***************************************************************************)
EXTENDS Integers, Sequences, FiniteSets

(***************************************************************************)
(* Register maps                                                           *)
(***************************************************************************)
\* enum class DMAEngineRegisters (indirect variant, behind the mailbox)
DMA_CMD_REG == 0
DMA_SRC_ADDR_REG == 8
DMA_DST_ADDR_REG == 16
DMA_LEN_REG == 24
DMA_STATUS_REG == 32
DMA_TX_LEN_REG == 56

DMAEngineRegisters ==
    {DMA_CMD_REG, DMA_SRC_ADDR_REG, DMA_DST_ADDR_REG, DMA_LEN_REG,
     DMA_STATUS_REG, DMA_TX_LEN_REG}

\* enum class JigsawHostControlRegisters (indirect variant, direct CSRs)
MMIO_VADDR_REG == 0
MMIO_CTRL_REG == 1
MMIO_WRITE_STATUS_REG == 2
MMIO_READ_STATUS_REG == 3
COYOTE_PID_REG == 4

\* enum class JigsawRegisters (baseline variant, direct CSRs)
JR_DMA_CMD_REG == 0
JR_DMA_SRC_ADDR_REG == 1
JR_DMA_DST_ADDR_REG == 2
JR_DMA_LEN_REG == 3
JR_DMA_STATUS_REG == 4
JR_START_COMPUTATION_REG == 5
JR_CYCLES_PER_COMPUTATION_REG == 6
JR_COYOTE_PID_REG == 7
JR_COYOTE_DMA_TX_LEN_REG == 8

CSRs == 0..8

(***************************************************************************)
(* Mailbox region: byte offsets of the fields inside the allocation        *)
(***************************************************************************)
OFF_RESP == 16
OFF_OPCODE == 24
OFF_ADDR == 25
OFF_LEN == 33
OFF_DATA == 41

RequestFields == {OFF_OPCODE, OFF_ADDR, OFF_LEN, OFF_DATA}
MailboxFields == {OFF_RESP} \cup RequestFields

OP_READ == 0
OP_WRITE == 1

(***************************************************************************)
(* Bounds of the model                                                     *)
(***************************************************************************)
\* iterations of the DMA status polling loop that are followed
MaxPoll == 2

\* pointers the allocator can return (0 = no usable memory)
MemAddrs == {8192, 65536}
\* indirect variant, line 170: getMem({CoyoteAlloc::HPF, 16 * 1024})
AllocSize == 16384
\* aes variant, line 19: defSize = 64 * 1024
defSize == 65536
\* the --size option: an empty transfer or the default
AesSizes == {0, defSize}
\* aes variant, lines 28-29: keyLow = 0xabf7158809cf4f3c and
\* keyHigh = 0x2b7e151628aed2a6.  The values are only stored into
\* registers, never computed with; the low 24 bits stand for each.
keyLow == 13586236
keyHigh == 11457190
\* aes variant, lines 78-79: the register indices of the two key halves
AES_KEY_LOW_REG == 0
AES_KEY_HIGH_REG == 1
\* thread identifiers getCtid() can return
Ctids == {5}
\* a value left in a register or in the region by earlier use of the device
Stale == 77
\* values the device can put in the DMA status register on completion: the
\* completion bit alone, or together with another device-defined bit
DoneStatus == {1, 3}

VARIABLES
    variant,        \* which program runs: "indirect", "baseline" or "aes"
    mem,            \* main's pointer `mem` (0 = allocation failed)
    ctid,           \* coyote_thread.getCtid()
    run,            \* number of the run_bench call in progress (0 = none yet)
    pc,             \* position in main / benchmark_run
    mpc,            \* position in read_mmio / write_mmio ("idle" = not in a call)
    addr,           \* parameter addr of the helper in progress
    data,           \* parameter data of write_mmio
    ret,            \* value returned by the last read_mmio
    local,          \* locals of benchmark_run: src_addr, dst_addr, tx_len, status,
                    \* polling_count
    csr,            \* register file reached by setCSR/getCSR
    dma,            \* DMA engine register file behind the mailbox (indirect)
    region,         \* the fields of the mailbox region, by byte offset
    mmioBusy,       \* device: a triggered mailbox request is not served yet
    dmaBusy,        \* device: a started transfer is not completed yet
    \* ---- history variables (observations, no program state) ----
    written,        \* request fields the host wrote in the current helper call
    outstanding,    \* host triggered a request and has not yet seen its status = 1
    observed,       \* current helper call has seen its completion status = 1
    respFresh,      \* device wrote the response field during the current read_mmio
    devResp,        \* the last read request the device served: address and value
    cmdCount,       \* writes of the DMA command register in the current run
    phase,          \* DMA controller: "Idle", "Triggered", "Completed"
    cfg,            \* roles of the registers the host wrote in the current run
    dmaCleared,     \* host wrote 0 to the DMA status since completion was observed
    lastPoll,       \* last DMA status value the host polled; whether it left the wait
    cleared,        \* per kind: host wrote 0 to that status since its last trigger
    trigUncleared,  \* kinds that were triggered without such a clear
    vaddrWrites,    \* host writes of MMIO_VADDR_REG since the process started
    obs1,           \* what the first run observed: completion, status, tx_len
    regsWritten,    \* registers the current helper call wrote with setCSR
    \* ---- program output ----
    cout,           \* the last line printed about the transferred length
    \* ---- aes_host_baseline ----
    size,           \* main's size (bytes), from the command line or defSize
    iodev,          \* the iodev option: "none", "ok" or "bad"
    tMem, rMem,     \* main's buffers (0 = no usable memory)
    tData           \* what the test buffer holds: "none", "plain", "cipher", "other"

prog == <<variant, ctid>>
ctl == <<run, pc>>
call == <<mpc, addr, data, ret>>
dev == <<csr, dma, region, mmioBusy, dmaBusy>>
hCall == <<written, outstanding, observed, respFresh, devResp>>
hDma == <<cmdCount, phase, cfg, dmaCleared, lastPoll>>
hKinds == <<cleared, trigUncleared>>
hist == <<hCall, hDma, hKinds>>
hRun == <<vaddrWrites, obs1, regsWritten>>
io == <<cout>>
aes == <<size, iodev, tMem, rMem, tData>>
vars == <<prog, aes, io, mem, ctl, call, local, dev, hist, hRun>>

Kinds == {"rd", "wr", "dma"}

(***************************************************************************)
(* Helpers                                                                 *)
(***************************************************************************)
\* the statement that follows statement p in the statement list steps
After(steps, p) == steps[(CHOOSE i \in 1..Len(steps) : steps[i] = p) + 1]

\* coyote_thread.setCSR(val, reg): the register file after the write
setCSR(val, reg) == [csr EXCEPT ![reg] = val]

\* coyote_thread.getCSR(reg)
getCSR(reg) == csr[reg]

\* what a DMA engine register is for, in either register map
DmaRole(v, reg) ==
    IF v = "indirect"
    THEN CASE reg = DMA_CMD_REG -> "cmd"
           [] reg = DMA_SRC_ADDR_REG -> "src"
           [] reg = DMA_DST_ADDR_REG -> "dst"
           [] reg = DMA_LEN_REG -> "len"
           [] reg = DMA_STATUS_REG -> "status"
           [] OTHER -> "other"
    ELSE CASE reg = JR_DMA_CMD_REG -> "cmd"
           [] reg = JR_DMA_SRC_ADDR_REG -> "src"
           [] reg = JR_DMA_DST_ADDR_REG -> "dst"
           [] reg = JR_DMA_LEN_REG -> "len"
           [] reg = JR_DMA_STATUS_REG -> "status"
           [] reg = JR_COYOTE_PID_REG -> "pid"
           [] OTHER -> "other"

\* the device starts a transfer when the command register is written with
\* the start bit (bit 0) set
StartsDma(role, val) == role = "cmd" /\ val % 2 = 1

(***************************************************************************)
(* History bookkeeping: what the host has just done, seen from outside     *)
(***************************************************************************)
\* the host triggers operations of the kinds in T and writes 0 to the
\* completion status of the kinds in C
NoteKinds(T, C) ==
    /\ trigUncleared' = trigUncleared \cup {k \in T : ~cleared[k]}
    /\ cleared' = [k \in Kinds |-> IF k \in T THEN FALSE
                                   ELSE IF k \in C THEN TRUE ELSE cleared[k]]

\* the host writes val to the register with the given role
NoteDma(role, val) ==
    /\ cmdCount' = IF role = "cmd" THEN cmdCount + 1 ELSE cmdCount
    /\ phase' = IF role = "cmd" THEN "Triggered" ELSE phase
    /\ cfg' = IF role \in {"src", "dst", "len", "pid"} THEN cfg \cup {role} ELSE cfg
    /\ dmaCleared' = IF role = "cmd" THEN FALSE
                     ELSE IF role = "status" /\ val = 0 /\ phase = "Completed" THEN TRUE
                     ELSE dmaCleared
    /\ UNCHANGED lastPoll

\* the kind of mailbox operation whose completion a host-control register reports
StatusKind(reg) ==
    IF reg = MMIO_READ_STATUS_REG THEN {"rd"}
    ELSE IF reg = MMIO_WRITE_STATUS_REG THEN {"wr"} ELSE {}

\* kinds triggered / cleared by a write of val to the register with that role
TrigOf(role) == IF role = "cmd" THEN {"dma"} ELSE {}
ClearOf(role, val) == IF role = "status" /\ val = 0 THEN {"dma"} ELSE {}

(***************************************************************************)
(* Initial state: the process has started, nothing is allocated yet.  The  *)
(* device keeps what earlier use left in it: completion statuses are       *)
(* sticky, the response and data fields of the region hold old values.     *)
(***************************************************************************)
Init ==
    /\ variant \in {"indirect", "baseline", "aes"}
    /\ ctid \in Ctids
    /\ mem = 0
    /\ run = 0
    /\ pc = CASE variant = "indirect" -> "m170"
              [] variant = "baseline" -> "n79"
              [] variant = "aes" -> "a54"
    /\ mpc = "idle" /\ addr = 0 /\ data = 0 /\ ret = 0
    /\ local = [src_addr |-> 0, dst_addr |-> 0, tx_len |-> 0, status |-> 0,
                polling_count |-> 0]
    /\ \E rs \in {0, 1}, ws \in {0, 1}, ds \in {0, 1} :
          IF variant = "indirect"
          THEN /\ csr = [r \in CSRs |-> IF r = MMIO_READ_STATUS_REG THEN rs
                                        ELSE IF r = MMIO_WRITE_STATUS_REG THEN ws
                                        ELSE 0]
               /\ dma = [r \in DMAEngineRegisters |->
                            IF r = DMA_STATUS_REG THEN ds ELSE 0]
          ELSE /\ rs = 0 /\ ws = 0
               /\ variant = "aes" => ds = 0
               /\ csr = [r \in CSRs |-> IF r = JR_DMA_STATUS_REG THEN ds ELSE 0]
               /\ dma = [r \in DMAEngineRegisters |-> 0]
    /\ \E r0 \in {0, Stale}, d0 \in {0, Stale} :
          region = [f \in MailboxFields |->
                       IF f = OFF_RESP THEN r0 ELSE IF f = OFF_DATA THEN d0 ELSE 0]
    /\ mmioBusy = FALSE /\ dmaBusy = FALSE
    /\ written = {} /\ outstanding = FALSE /\ observed = FALSE
    /\ respFresh = FALSE /\ devResp = [addr |-> 0, val |-> 0]
    /\ cmdCount = 0 /\ phase = "Idle" /\ cfg = {} /\ dmaCleared = FALSE
    /\ lastPoll = [val |-> 0, left |-> FALSE]
    /\ cleared = [k \in Kinds |-> FALSE] /\ trigUncleared = {}
    /\ vaddrWrites = 0 /\ regsWritten = {}
    /\ obs1 = [done |-> FALSE, status |-> 0, tx_len |-> 0]
    /\ cout = [msg |-> "none", val |-> 0]
    /\ IF variant = "aes"
       THEN size \in AesSizes /\ iodev \in {"none", "ok", "bad"}
       ELSE size = 0 /\ iodev = "none"
    /\ tMem = 0 /\ rMem = 0 /\ tData = "none"

(***************************************************************************)
(* read_mmio (indirect variant, lines 48-71)                               *)
(***************************************************************************)
\* read_mmio with the trigger issued before the length field is stored
read_mmio_steps_trigger_early == <<"r50", "r56", "r57", "r61", "r58", "r64", "r70">>

\* the statements of read_mmio in program order; "r65" is the body of the
\* polling loop, which leads back to its condition at "r64"
read_mmio_steps == <<"r50", "r56", "r57", "r58", "r61", "r64", "r70">>

\* read_mmio clearing the write status instead of the read status
ReadClearReg_write == MMIO_WRITE_STATUS_REG

\* line 50: the status register read_mmio clears
ReadClearReg == MMIO_READ_STATUS_REG

\* read_mmio polling the write status instead of the read status
ReadPollReg_write == MMIO_WRITE_STATUS_REG

\* line 64: the status register read_mmio polls
ReadPollReg == MMIO_READ_STATUS_REG

\* the loop of line 64 written with == in place of !=
ReadDone_inverted(v) == v /= 1

\* the loop condition of line 64, negated: the wait is over
ReadDone(v) == v = 1

\* line 50: clear read status
R50 ==
    /\ mpc = "r50"
    /\ csr' = setCSR(0, ReadClearReg)
    /\ regsWritten' = regsWritten \cup {ReadClearReg}
    /\ NoteKinds({}, StatusKind(ReadClearReg))
    /\ mpc' = After(read_mmio_steps, "r50")
    /\ UNCHANGED <<prog, aes, io, vaddrWrites, obs1, mem, ctl, addr, data, ret, local, dma, region, mmioBusy,
                   dmaBusy, hCall, hDma>>

\* a store to one field of the region by the helper in progress
StoreField(at, off, val, steps) ==
    /\ mpc = at
    /\ region' = [region EXCEPT ![off] = val]
    /\ written' = written \cup {off}
    /\ mpc' = After(steps, at)
    /\ UNCHANGED <<prog, aes, io, hRun, mem, ctl, addr, data, ret, local, csr, dma, mmioBusy, dmaBusy,
                   outstanding, observed, respFresh, devResp, hDma, hKinds>>

\* line 56: base[24] = 0
R56 == StoreField("r56", OFF_OPCODE, OP_READ, read_mmio_steps)
\* line 57: *(base + 25) = addr
R57 == StoreField("r57", OFF_ADDR, addr, read_mmio_steps)
\* line 58 storing the length in the data field
R58_data == StoreField("r58", OFF_DATA, 0, read_mmio_steps)

\* line 58: *(base + 33) = 0
R58 == StoreField("r58", OFF_LEN, 0, read_mmio_steps)

\* setCSR(1, MMIO_CTRL_REG): the device takes the request that is in the
\* region; the history records what that request asks for
Trigger(at, steps) ==
    LET isW == region[OFF_OPCODE] = OP_WRITE
        role == IF isW THEN DmaRole("indirect", region[OFF_ADDR]) ELSE "none"
        val == region[OFF_DATA]
    IN  /\ mpc = at
        /\ csr' = setCSR(1, MMIO_CTRL_REG)
        /\ regsWritten' = regsWritten \cup {MMIO_CTRL_REG}
        /\ mmioBusy' = TRUE
        /\ outstanding' = TRUE
        /\ NoteKinds({IF isW THEN "wr" ELSE "rd"} \cup TrigOf(role), ClearOf(role, val))
        /\ NoteDma(role, val)
        /\ mpc' = After(steps, at)
        /\ UNCHANGED <<prog, aes, io, vaddrWrites, obs1, mem, ctl, addr, data, ret, local, dma, region, dmaBusy,
                       written, observed, respFresh, devResp>>

\* line 61: trigger
R61 == Trigger("r61", read_mmio_steps)

\* one evaluation of a polling loop's condition on status register reg:
\* leave the loop when done, otherwise go to the sleep
Poll(at, reg, done, kindReg, steps, sleep) ==
    LET v == getCSR(reg)
        saw == reg = kindReg /\ v = 1
    IN  /\ mpc = at
        /\ observed' = (observed \/ saw)
        /\ outstanding' = (outstanding /\ ~saw)
        /\ mpc' = IF done THEN After(steps, at) ELSE sleep
        /\ UNCHANGED <<prog, aes, io, hRun, mem, ctl, addr, data, ret, local, dev, written,
                       respFresh, devResp, hDma, hKinds>>

\* line 64: while (getCSR(MMIO_READ_STATUS_REG) != 1)
R64 == Poll("r64", ReadPollReg, ReadDone(getCSR(ReadPollReg)),
            MMIO_READ_STATUS_REG, read_mmio_steps, "r65")

\* line 65: sleep_for, then back to the condition
R65 ==
    /\ mpc = "r65"
    /\ mpc' = "r64"
    /\ UNCHANGED <<prog, aes, io, hRun, mem, ctl, addr, data, ret, local, dev, hist>>

\* line 70: return *(base + 16)
R70 ==
    /\ mpc = "r70"
    /\ ret' = region[OFF_RESP]
    /\ mpc' = "rret"
    /\ UNCHANGED <<prog, aes, io, hRun, mem, ctl, addr, data, local, dev, hist>>

(***************************************************************************)
(* write_mmio (indirect variant, lines 74-93)                              *)
(***************************************************************************)
write_mmio_steps == <<"w76", "w81", "w82", "w83", "w84", "w87", "w90", "wret">>

\* line 76: the status register write_mmio clears
WriteClearReg == MMIO_WRITE_STATUS_REG

\* line 90: the status register write_mmio polls
WritePollReg == MMIO_WRITE_STATUS_REG

\* the loop condition of line 90, negated
WriteDone(v) == v = 1

\* line 76: clear write status
W76 ==
    /\ mpc = "w76"
    /\ csr' = setCSR(0, WriteClearReg)
    /\ regsWritten' = regsWritten \cup {WriteClearReg}
    /\ NoteKinds({}, StatusKind(WriteClearReg))
    /\ mpc' = After(write_mmio_steps, "w76")
    /\ UNCHANGED <<prog, aes, io, vaddrWrites, obs1, mem, ctl, addr, data, ret, local, dma, region, mmioBusy,
                   dmaBusy, hCall, hDma>>

\* line 81: base[24] = 1
W81 == StoreField("w81", OFF_OPCODE, OP_WRITE, write_mmio_steps)
\* line 82: *(base + 25) = addr
W82 == StoreField("w82", OFF_ADDR, addr, write_mmio_steps)
\* line 83: *(base + 33) = 0
W83 == StoreField("w83", OFF_LEN, 0, write_mmio_steps)
\* line 84 storing the address in the data field
W84_addr == StoreField("w84", OFF_DATA, addr, write_mmio_steps)

\* line 84: *(base + 41) = data
W84 == StoreField("w84", OFF_DATA, data, write_mmio_steps)
\* line 87: trigger
W87 == Trigger("w87", write_mmio_steps)

\* line 90: while (getCSR(MMIO_WRITE_STATUS_REG) != 1)
W90 == Poll("w90", WritePollReg, WriteDone(getCSR(WritePollReg)),
            MMIO_WRITE_STATUS_REG, write_mmio_steps, "w91")

\* line 91: sleep_for, then back to the condition
W91 ==
    /\ mpc = "w91"
    /\ mpc' = "w90"
    /\ UNCHANGED <<prog, aes, io, hRun, mem, ctl, addr, data, ret, local, dev, hist>>

(***************************************************************************)
(* The device                                                              *)
(***************************************************************************)
\* the device serves the triggered request that is in the region: a read
\* puts the register's value in the response field and raises the read
\* status; a write stores the data in the register and raises the write
\* status; a write of the command register with the start bit starts the
\* DMA engine
MmioServe ==
    LET a == region[OFF_ADDR]
        v == region[OFF_DATA]
    IN  /\ mmioBusy
        /\ mmioBusy' = FALSE
        /\ IF region[OFF_OPCODE] = OP_READ
           THEN /\ region' = [region EXCEPT ![OFF_RESP] = dma[a]]
                /\ csr' = setCSR(1, MMIO_READ_STATUS_REG)
                /\ respFresh' = TRUE
                /\ devResp' = [addr |-> a, val |-> dma[a]]
                /\ UNCHANGED <<dma, dmaBusy>>
           ELSE /\ dma' = [dma EXCEPT ![a] = v]
                /\ csr' = setCSR(1, MMIO_WRITE_STATUS_REG)
                /\ dmaBusy' = (dmaBusy \/ StartsDma(DmaRole("indirect", a), v))
                /\ UNCHANGED <<region, respFresh, devResp>>
        /\ UNCHANGED <<prog, aes, io, hRun, mem, ctl, call, local, written, outstanding, observed,
                       hDma, hKinds>>

\* the DMA engine completes the transfer in flight: it raises the completion
\* bit of the status register (other bits are device-defined) and reports
\* the number of bytes moved, all of them or fewer
DmaComplete ==
    /\ dmaBusy
    /\ dmaBusy' = FALSE
    /\ \E s \in DoneStatus :
          IF variant = "indirect"
          THEN /\ \E n \in {dma[DMA_LEN_REG], dma[DMA_LEN_REG] \div 2} :
                     dma' = [dma EXCEPT ![DMA_STATUS_REG] = s, ![DMA_TX_LEN_REG] = n]
               /\ UNCHANGED csr
          ELSE /\ \E n \in {csr[JR_DMA_LEN_REG], csr[JR_DMA_LEN_REG] \div 2} :
                     csr' = [csr EXCEPT ![JR_DMA_STATUS_REG] = s,
                                        ![JR_COYOTE_DMA_TX_LEN_REG] = n]
               /\ UNCHANGED dma
    /\ UNCHANGED <<prog, aes, io, hRun, mem, ctl, call, local, region, mmioBusy, hist>>

(***************************************************************************)
(* benchmark_run, indirect variant (lines 42-162)                          *)
(***************************************************************************)
\* the statements of benchmark_run in program order; "L149" is the body of
\* the polling loop, which leads back to its condition at "L145"
benchmark_run_steps ==
    <<"L44", "L97", "L100", "L104", "L108", "L112", "L124", "L125", "L129", "L131",
      "L135", "L137", "L140", "L143", "L145", "L154", "L157", "L160", "L162">>

\* line 128 with the buffer placed at the start of the allocation
h2d_dst_addr_base == mem

\* line 128: uint64_t h2d_dst_addr = mem_addr + 4096
h2d_dst_addr == mem + 4096

\* line 134: uint64_t len = 1024
len == 1024

\* the register line 129 programs with h2d_dst_addr
L129Reg == DMA_SRC_ADDR_REG

\* the polling loop leading back to the command write
L149Next_retrigger == "L140"

\* where the body of the DMA polling loop leads
L149Next == "L145"

\* the completion test of line 145 inverted
DmaDone_inverted(v) == (v % 2) # 1

\* line 145: the completion test on the value read from the status register
DmaDone(v) == (v % 2) = 1

\* a direct setCSR of a host-control register
HostCtlRole(reg) == IF reg = COYOTE_PID_REG THEN "pid" ELSE "other"

SetCtl(l, val, reg) ==
    /\ pc = l /\ mpc = "idle"
    /\ csr' = setCSR(val, reg)
    /\ vaddrWrites' = IF reg = MMIO_VADDR_REG THEN vaddrWrites + 1 ELSE vaddrWrites
    /\ NoteDma(HostCtlRole(reg), val)
    /\ pc' = After(benchmark_run_steps, l)
    /\ UNCHANGED <<prog, aes, io, obs1, regsWritten, mem, run, call, local, dma, region, mmioBusy, dmaBusy,
                   hCall, hKinds>>

\* a getCSR whose value is only printed
PrintCSR(l, reg, steps) ==
    /\ pc = l /\ mpc = "idle"
    /\ getCSR(reg) \in Nat
    /\ pc' = After(steps, l)
    /\ UNCHANGED <<prog, aes, io, hRun, mem, run, call, local, dev, hist>>

\* the call of read_mmio(a) made by statement l
CallRead(l, a) ==
    /\ pc = l /\ mpc = "idle"
    /\ mpc' = read_mmio_steps[1]
    /\ addr' = a
    /\ written' = {} /\ observed' = FALSE /\ respFresh' = FALSE
    /\ regsWritten' = {}
    /\ UNCHANGED <<prog, aes, io, vaddrWrites, obs1, mem, ctl, data, ret, local, dev, outstanding, devResp,
                   hDma, hKinds>>

\* read_mmio returns to statement l, which stores the value in local var
\* ("none": the value is only printed)
RetRead(l, var) ==
    /\ pc = l /\ mpc = "rret"
    /\ mpc' = "idle"
    /\ local' = IF var = "none" THEN local ELSE [local EXCEPT ![var] = ret]
    /\ pc' = After(benchmark_run_steps, l)
    /\ UNCHANGED <<prog, aes, io, hRun, mem, run, addr, data, ret, dev, hist>>

ReadStmt(l, a, var) == CallRead(l, a) \/ RetRead(l, var)

\* read_mmio returns to statement l, which stores the value in local var
\* and prints it after the text msg
RetReadPrint(l, var, msg) ==
    /\ pc = l /\ mpc = "rret"
    /\ mpc' = "idle"
    /\ local' = [local EXCEPT ![var] = ret]
    /\ cout' = [msg |-> msg, val |-> ret]
    /\ pc' = After(benchmark_run_steps, l)
    /\ UNCHANGED <<prog, aes, hRun, mem, run, addr, data, ret, dev, hist>>

\* the call of write_mmio(a, d) made by statement l
CallWrite(l, a, d) ==
    /\ pc = l /\ mpc = "idle"
    /\ mpc' = write_mmio_steps[1]
    /\ addr' = a /\ data' = d
    /\ written' = {} /\ observed' = FALSE
    /\ regsWritten' = {}
    /\ UNCHANGED <<prog, aes, io, vaddrWrites, obs1, mem, ctl, ret, local, dev, outstanding, respFresh, devResp,
                   hDma, hKinds>>

RetWrite(l) ==
    /\ pc = l /\ mpc = "wret"
    /\ mpc' = "idle"
    /\ pc' = After(benchmark_run_steps, l)
    /\ UNCHANGED <<prog, aes, io, hRun, mem, run, addr, data, ret, local, dev, hist>>

WriteStmt(l, a, d) == CallWrite(l, a, d) \/ RetWrite(l)

\* line 44: setCSR(getCtid(), COYOTE_PID_REG)
L44 == SetCtl("L44", ctid, COYOTE_PID_REG)
\* lines 95-97: setCSR(mem_addr, MMIO_VADDR_REG)
L97 == SetCtl("L97", mem, MMIO_VADDR_REG)
\* line 100: src_addr = read_mmio(DMA_SRC_ADDR_REG)
L100 == ReadStmt("L100", DMA_SRC_ADDR_REG, "src_addr")
\* line 104: dst_addr = read_mmio(DMA_DST_ADDR_REG)
L104 == ReadStmt("L104", DMA_DST_ADDR_REG, "dst_addr")
\* lines 108-109: tx_len = read_mmio(DMA_TX_LEN_REG); print "DMA TX Length: "
L108 ==
    \/ CallRead("L108", DMA_TX_LEN_REG)
    \/ RetReadPrint("L108", "tx_len", "DMA TX Length: ")
\* line 112: status = read_mmio(DMA_STATUS_REG)
L112 == ReadStmt("L112", DMA_STATUS_REG, "status")
\* line 124: print getCSR(MMIO_VADDR_REG)
L124 == PrintCSR("L124", MMIO_VADDR_REG, benchmark_run_steps)
\* line 125: print getCSR(COYOTE_PID_REG)
L125 == PrintCSR("L125", COYOTE_PID_REG, benchmark_run_steps)
\* line 129: write_mmio(DMA_SRC_ADDR_REG, h2d_dst_addr)
L129 == WriteStmt("L129", L129Reg, h2d_dst_addr)
\* line 131: print read_mmio(DMA_SRC_ADDR_REG)
L131 == ReadStmt("L131", DMA_SRC_ADDR_REG, "none")
\* line 135: write_mmio(DMA_LEN_REG, len)
L135 == WriteStmt("L135", DMA_LEN_REG, len)
\* line 137: print read_mmio(DMA_LEN_REG)
L137 == ReadStmt("L137", DMA_LEN_REG, "none")
\* line 140: write_mmio(DMA_CMD_REG, 1)
L140 == WriteStmt("L140", DMA_CMD_REG, 1)

\* lines 143-144: polling_count = 0; status = 0
L143 ==
    /\ pc = "L143" /\ mpc = "idle"
    /\ local' = [local EXCEPT !.polling_count = 0, !.status = 0]
    /\ pc' = After(benchmark_run_steps, "L143")
    /\ UNCHANGED <<prog, aes, io, hRun, mem, run, call, dev, hist>>

\* line 145: while ((status = read_mmio(DMA_STATUS_REG) & 0x1) != 1)
L145 ==
    \/ CallRead("L145", DMA_STATUS_REG)
    \/ /\ pc = "L145" /\ mpc = "rret"
       /\ mpc' = "idle"
       /\ local' = [local EXCEPT !.status = ret % 2]
       /\ lastPoll' = [val |-> ret, left |-> DmaDone(ret)]
       /\ phase' = IF DmaDone(ret) THEN "Completed" ELSE phase
       /\ pc' = IF DmaDone(ret) THEN After(benchmark_run_steps, "L145") ELSE "L149"
       /\ UNCHANGED <<prog, aes, io, hRun, mem, run, addr, data, ret, dev, hCall, cmdCount, cfg,
                      dmaCleared, hKinds>>

\* lines 146-150: the loop body; polling_count only selects what is printed,
\* and counts above MaxPoll are not told apart
L149 ==
    /\ pc = "L149" /\ mpc = "idle"
    /\ local' = [local EXCEPT !.polling_count =
                    IF local.polling_count < MaxPoll THEN local.polling_count + 1
                    ELSE MaxPoll]
    /\ pc' = L149Next
    /\ UNCHANGED <<prog, aes, io, hRun, mem, run, call, dev, hist>>

\* line 154: status = read_mmio(DMA_STATUS_REG)
L154 == ReadStmt("L154", DMA_STATUS_REG, "status")
\* line 157: write_mmio(DMA_STATUS_REG, 0)
L157 == WriteStmt("L157", DMA_STATUS_REG, 0)
\* lines 159-161: tx_len = read_mmio(DMA_TX_LEN_REG); print "DMA TX Length: ".
\* The value is printed as it is; it is not compared with len.
L160 ==
    \/ CallRead("L160", DMA_TX_LEN_REG)
    \/ RetReadPrint("L160", "tx_len", "DMA TX Length: ")

(***************************************************************************)
(* main and run_bench, indirect variant (lines 164-189)                    *)
(***************************************************************************)
\* a call of run_bench: benchmark_run starts from its first statement with
\* fresh locals
EnterRun(l, n, first) ==
    /\ pc = l
    /\ run' = n
    /\ pc' = first
    /\ local' = [src_addr |-> 0, dst_addr |-> 0, tx_len |-> 0, status |-> 0,
                 polling_count |-> 0]
    /\ cmdCount' = 0 /\ cfg' = {}
    /\ UNCHANGED <<prog, aes, io, hRun, mem, call, dev, hCall, phase, dmaCleared, lastPoll, hKinds>>

\* getMem: the allocator returns a pointer, or none
GetMem(l, next) ==
    /\ pc = l
    /\ mem' \in MemAddrs \cup {0}
    /\ pc' = next
    /\ UNCHANGED <<prog, aes, io, hRun, run, call, local, dev, hist>>

\* if (!mem) throw
CheckMem(l, next) ==
    /\ pc = l
    /\ pc' = IF mem = 0 THEN "throw" ELSE next
    /\ UNCHANGED <<prog, aes, io, hRun, mem, run, call, local, dev, hist>>

\* line 170
M170 == GetMem("m170", "m171")
\* line 171
M171 == CheckMem("m171", "m178")
\* line 178: run_bench, RUN 1
M178 == EnterRun("m178", 1, benchmark_run_steps[1])
\* line 186: run_bench, RUN 2
M186 == EnterRun("m186", 2, benchmark_run_steps[1])

\* line 162: benchmark_run and run_bench return to main
L162 ==
    /\ pc = "L162" /\ mpc = "idle"
    /\ pc' = IF run = 1 THEN "m186" ELSE "m188"
    /\ obs1' = IF run = 1
               THEN [done |-> phase = "Completed", status |-> local.status,
                     tx_len |-> local.tx_len]
               ELSE obs1
    /\ UNCHANGED <<prog, aes, io, vaddrWrites, regsWritten, mem, run, call, local, dev, hist>>

(***************************************************************************)
(* benchmark_run and main, baseline variant                                *)
(***************************************************************************)
baseline_steps ==
    <<"b37", "b38", "b39", "b40", "b43", "b59", "b63", "b64", "b65", "b71">>

\* line 59: the loop condition, negated
BaselineDmaDone(v) == v = 1

\* a direct setCSR of a DMA engine register
SetJR(l, val, reg) ==
    LET role == DmaRole("baseline", reg)
    IN  /\ pc = l
        /\ csr' = setCSR(val, reg)
        /\ dmaBusy' = (dmaBusy \/ StartsDma(role, val))
        /\ NoteKinds(TrigOf(role), ClearOf(role, val))
        /\ NoteDma(role, val)
        /\ pc' = After(baseline_steps, l)
        /\ UNCHANGED <<prog, aes, io, hRun, mem, run, call, local, dma, region, mmioBusy, hCall>>

\* line 37: setCSR(mem, DMA_SRC_ADDR_REG)
B37 == SetJR("b37", mem, JR_DMA_SRC_ADDR_REG)
\* line 38: setCSR(mem, DMA_DST_ADDR_REG)
B38 == SetJR("b38", mem, JR_DMA_DST_ADDR_REG)
\* line 39: setCSR(32768, DMA_LEN_REG)
B39 == SetJR("b39", 32768, JR_DMA_LEN_REG)
\* line 40: setCSR(getCtid(), COYOTE_PID_REG)
B40 == SetJR("b40", ctid, JR_COYOTE_PID_REG)
\* line 43: setCSR(3, DMA_CMD_REG)
B43 == SetJR("b43", 3, JR_DMA_CMD_REG)

\* line 59: while (getCSR(DMA_STATUS_REG) != 1)
B59 ==
    LET v == getCSR(JR_DMA_STATUS_REG)
    IN  /\ pc = "b59"
        /\ lastPoll' = [val |-> v, left |-> BaselineDmaDone(v)]
        /\ phase' = IF BaselineDmaDone(v) THEN "Completed" ELSE phase
        /\ pc' = IF BaselineDmaDone(v) THEN After(baseline_steps, "b59") ELSE "b60"
        /\ UNCHANGED <<prog, aes, io, hRun, mem, run, call, local, dev, hCall, cmdCount, cfg,
                       dmaCleared, hKinds>>

\* line 60: sleep_for, then back to the condition
B60 ==
    /\ pc = "b60"
    /\ pc' = "b59"
    /\ UNCHANGED <<prog, aes, io, hRun, mem, run, call, local, dev, hist>>

\* line 63: print getCSR(DMA_STATUS_REG)
B63 == PrintCSR("b63", JR_DMA_STATUS_REG, baseline_steps)
\* line 64: print getCSR(DMA_CMD_REG)
B64 == PrintCSR("b64", JR_DMA_CMD_REG, baseline_steps)
\* line 65: print "COYOTE_DMA_TX_LEN_REG: " and getCSR(COYOTE_DMA_TX_LEN_REG).
\* The value is printed as it is; it is not compared with the length.
B65 ==
    /\ pc = "b65"
    /\ cout' = [msg |-> "COYOTE_DMA_TX_LEN_REG: ",
                val |-> getCSR(JR_COYOTE_DMA_TX_LEN_REG)]
    /\ pc' = After(baseline_steps, "b65")
    /\ UNCHANGED <<prog, aes, hRun, mem, run, call, local, dev, hist>>

\* line 79
N79 == GetMem("n79", "n80")
\* line 80
N80 == CheckMem("n80", "n85")
\* line 85: run_bench
N85 == EnterRun("n85", 1, baseline_steps[1])

\* lines 67-71: the first bytes of mem are printed; benchmark_run and
\* run_bench return to main
B71 ==
    /\ pc = "b71"
    /\ pc' = "n87"
    /\ UNCHANGED <<prog, aes, io, hRun, mem, run, call, local, dev, hist>>

(***************************************************************************)
(* main, aes variant (sw/examples/aes_host_baseline/main.cpp, lines 35-95) *)
(* size and iodev are the command-line options (lines 38-50).  tData is    *)
(* what the test buffer holds: "plain" after the fill loop, "cipher" or    *)
(* "other" after the transfer.                                             *)
(***************************************************************************)
\* lines 54-63: an --iodev option is resolved; an invalid one ends the
\* program with EXIT_FAILURE
A54 ==
    /\ pc = "a54"
    /\ pc' = IF iodev = "bad" THEN "exit_failure" ELSE "a68"
    /\ cout' = CASE iodev = "bad" ->
                      [msg |-> "User entered an invalid IO configuration", val |-> 0]
                 [] iodev = "ok" -> [msg |-> "User selected IO device: ", val |-> 0]
                 [] iodev = "none" -> cout
    /\ UNCHANGED <<prog, aes, hRun, mem, run, call, local, dev, hist>>

\* line 68: tMem = cproc.getMem(...)
A68 ==
    /\ pc = "a68"
    /\ tMem' \in MemAddrs \cup {0}
    /\ pc' = "a69"
    /\ UNCHANGED <<prog, size, iodev, rMem, tData, io, hRun, mem, run, call, local,
                   dev, hist>>

\* line 69: rMem = cproc.getMem(...); neither pointer is tested
A69 ==
    /\ pc = "a69"
    /\ rMem' \in MemAddrs \cup {0}
    /\ pc' = "a71"
    /\ UNCHANGED <<prog, size, iodev, tMem, tData, io, hRun, mem, run, call, local,
                   dev, hist>>

\* the loops of lines 71-74 and 84-92 touch tMem[i] for i < size / 8:
\* through a null tMem that is undefined behaviour
NullAccess == tMem = 0 /\ size \div 8 > 0

\* lines 71-74: fill the test buffer with the plain text.  A store through
\* a null pointer may fault or may go unnoticed.
A71 ==
    /\ pc = "a71"
    /\ IF NullAccess
       THEN /\ pc' \in {"fault", "a77"}
            /\ tData' = tData
       ELSE /\ pc' = "a77"
            /\ tData' = IF size \div 8 > 0 THEN "plain" ELSE tData
    /\ UNCHANGED <<prog, size, iodev, tMem, rMem, io, hRun, mem, run, call, local,
                   dev, hist>>

\* line 77: cproc.ioSwitch(io_dev)
A77 ==
    /\ pc = "a77"
    /\ pc' = "a78"
    /\ UNCHANGED <<prog, aes, io, hRun, mem, run, call, local, dev, hist>>

\* cproc.setCSR(val, reg) of the aes variant
SetKey(l, val, reg, next) ==
    /\ pc = l
    /\ csr' = setCSR(val, reg)
    /\ pc' = next
    /\ UNCHANGED <<prog, aes, io, hRun, mem, run, call, local, dma, region,
                   mmioBusy, dmaBusy, hist>>

\* line 78: cproc.setCSR(keyLow, 0)
A78 == SetKey("a78", keyLow, AES_KEY_LOW_REG, "a79")
\* line 79: cproc.setCSR(keyHigh, 1)
A79 == SetKey("a79", keyHigh, AES_KEY_HIGH_REG, "a81")

\* line 81: cproc.invoke({TRANSFER, tMem, size}) returns when the transfer
\* is done; what the device leaves in the buffer is the device's choice
A81 ==
    /\ pc = "a81"
    /\ tData' \in IF size \div 8 > 0 /\ tMem # 0 THEN {"cipher", "other"} ELSE {tData}
    /\ pc' = "a84"
    /\ UNCHANGED <<prog, size, iodev, tMem, rMem, io, hRun, mem, run, call, local,
                   dev, hist>>

\* lines 84-94: compare the buffer with the test vectors and print the
\* verdict.  Reading through a null pointer may fault or yield anything.
A84 ==
    /\ pc = "a84"
    /\ \E k \in BOOLEAN :
          /\ ~NullAccess => (k = (size \div 8 = 0 \/ tData = "cipher"))
          /\ \/ /\ pc' = "a95"
                /\ cout' = [msg |-> IF k THEN "Success: cipher text matches test vectors!"
                                    ELSE "Error: found cipher text that doesn't match the test vector",
                            val |-> 0]
             \/ /\ NullAccess
                /\ pc' = "fault"
                /\ cout' = cout
    /\ UNCHANGED <<prog, aes, hRun, mem, run, call, local, dev, hist>>

(***************************************************************************)
(* Specification                                                           *)
(***************************************************************************)
\* the steps of the indirect variant's program
HostIndirect ==
    \/ M170 \/ M171 \/ M178 \/ M186
    \/ L44 \/ L97 \/ L100 \/ L104 \/ L108 \/ L112 \/ L124 \/ L125 \/ L129 \/ L131
    \/ L135 \/ L137 \/ L140 \/ L143 \/ L145 \/ L149 \/ L154 \/ L157 \/ L160 \/ L162
    \/ R50 \/ R56 \/ R57 \/ R58 \/ R61 \/ R64 \/ R65 \/ R70
    \/ W76 \/ W81 \/ W82 \/ W83 \/ W84 \/ W87 \/ W90 \/ W91

\* the steps of the baseline variant's program
HostBaseline ==
    \/ N79 \/ N80 \/ N85
    \/ B37 \/ B38 \/ B39 \/ B40 \/ B43 \/ B59 \/ B60 \/ B63 \/ B64 \/ B65 \/ B71

\* the steps of the aes variant's program
HostAes == A54 \/ A68 \/ A69 \/ A71 \/ A77 \/ A78 \/ A79 \/ A81 \/ A84

Host == HostIndirect \/ HostBaseline \/ HostAes

Device == MmioServe \/ DmaComplete

Next == Host \/ Device

Spec == Init /\ [][Next]_vars

(***************************************************************************)
(* A responsive device and a running host: the single calling thread keeps *)
(* executing its next statement (the polling loops only sleep and retry),  *)
(* the device serves every mailbox request and completes every transfer    *)
(* it was given.                                                           *)
(***************************************************************************)
SpecFair ==
    /\ Init /\ [][Next]_vars
    /\ WF_vars(Host)
    /\ WF_vars(MmioServe)
    /\ WF_vars(DmaComplete)

(***************************************************************************)
(* The indirect variant against a device that starts from its reset state  *)
(* and completes every transfer the same way: completion bit alone, all    *)
(* requested bytes moved.                                                  *)
(***************************************************************************)
InitDet ==
    /\ Init
    /\ variant = "indirect"
    /\ dma[DMA_STATUS_REG] = 0

DmaCompleteDet ==
    /\ dmaBusy
    /\ dmaBusy' = FALSE
    /\ dma' = [dma EXCEPT ![DMA_STATUS_REG] = 1, ![DMA_TX_LEN_REG] = dma[DMA_LEN_REG]]
    /\ UNCHANGED <<prog, aes, io, hRun, mem, ctl, call, local, csr, region, mmioBusy,
                   hist>>

NextDet == HostIndirect \/ MmioServe \/ DmaCompleteDet

SpecDet == InitDet /\ [][NextDet]_vars

(***************************************************************************)
(* Properties                                                              *)
(***************************************************************************)
ReadPcs == {"r50", "r56", "r57", "r58", "r61", "r64", "r65", "r70", "rret"}
WritePcs == {"w76", "w81", "w82", "w83", "w84", "w87", "w90", "w91", "wret"}

\* C1: write-before-trigger.  While the device holds a triggered request
\* that it has not served yet, every request field of the call in progress
\* has been stored by that call and carries that call's values: opcode,
\* address and length for read_mmio, and the data payload too for write_mmio.
WriteBeforeTrigger ==
    mmioBusy =>
        /\ mpc \in ReadPcs \cup WritePcs
        /\ {OFF_OPCODE, OFF_ADDR, OFF_LEN} \subseteq written
        /\ region[OFF_ADDR] = addr
        /\ region[OFF_LEN] = 0
        /\ region[OFF_OPCODE] = IF mpc \in ReadPcs THEN OP_READ ELSE OP_WRITE
        /\ mpc \in WritePcs => (OFF_DATA \in written /\ region[OFF_DATA] = data)

\* a write request is triggered and not served yet, all four fields stored
WriteBeforeTrigger_witness ==
    /\ mmioBusy /\ mpc = "w90" /\ pc = "L129"
    /\ written = RequestFields /\ region[OFF_DATA] = mem + 4096

\* C2: one outstanding request.  From the trigger of a request until the
\* host has read that request's completion status as 1, no step stores a
\* request field of the region.
OneOutstanding == [][outstanding => written' \subseteq written]_vars

\* the DMA status polling loop of the second run waits for a request the
\* device has served and the host has not yet seen completed
OneOutstanding_witness ==
    /\ outstanding /\ ~mmioBusy /\ run = 2 /\ pc = "L145" /\ mpc = "r64"
    /\ local.polling_count > 0

\* C3: read order.  The response field is read (line 70) only after this
\* call saw the read status equal to 1, and what is read and returned is
\* the value the device produced, during this call, for this call's address.
ReadReturnsOwnResponse ==
    /\ mpc \in {"r70", "rret"} =>
          /\ observed /\ respFresh /\ ~outstanding
          /\ devResp.addr = addr
          /\ region[OFF_RESP] = devResp.val
    /\ mpc = "rret" => ret = devResp.val

\* a read returns the length register's value while the response field held
\* another value before the call
ReadReturnsOwnResponse_witness ==
    mpc = "rret" /\ pc = "L137" /\ ret = len /\ local.src_addr = 0 /\ observed

\* C4: round trip.  With the device storing what is written, the read-back
\* of line 131 returns the value line 129 wrote to the source address
\* register, and the read-back of line 137 returns the value line 135 wrote
\* to the length register, for every pointer the allocator returns and in
\* both runs.
RoundTrip ==
    /\ (pc = "L131" /\ mpc = "rret") => ret = h2d_dst_addr
    /\ (pc = "L137" /\ mpc = "rret") => ret = len

\* the read-back of the second run returns the value written for the
\* larger pointer
RoundTrip_witness ==
    pc = "L131" /\ mpc = "rret" /\ run = 2 /\ mem = 65536 /\ ret = 65536 + 4096

\* C5: status-clear invariant.  Between the clear of its completion status
\* and its trigger, a call finds that status register at 0, and the device
\* holds no unserved request that could raise it.
StatusClearWindow ==
    /\ mpc \in {"r56", "r57", "r58", "r61"} =>
          (getCSR(MMIO_READ_STATUS_REG) = 0 /\ ~mmioBusy)
    /\ mpc \in {"w81", "w82", "w83", "w84", "w87"} =>
          (getCSR(MMIO_WRITE_STATUS_REG) = 0 /\ ~mmioBusy)

\* the second read of a run is about to trigger: the first read raised the
\* read status and the clear of line 50 reset it
StatusClearWindow_witness ==
    /\ mpc = "r61" /\ pc = "L104" /\ devResp.addr = DMA_SRC_ADDR_REG
    /\ getCSR(MMIO_READ_STATUS_REG) = 0

\* C6: no double trigger.  A run writes the DMA command register at most
\* once, has written it exactly once when it returns, and no write of the
\* command register happens while the controller has triggered a transfer
\* and has not left the completion wait for it; the second run included.
NoDoubleTrigger ==
    /\ [](cmdCount <= 1 /\ (pc \in {"L162", "b71"} => cmdCount = 1))
    /\ [][cmdCount' > cmdCount => phase # "Triggered"]_vars

\* the second run has written the command register, after the first run
\* left its completion wait
NoDoubleTrigger_witness ==
    run = 2 /\ cmdCount = 1 /\ phase = "Triggered" /\ pc = "L145"

\* C7: configure before trigger.  Once a run has written the DMA command
\* register, it has written the source address, the destination address,
\* the length and the process identifier registers before.
ConfigureBeforeTrigger ==
    cmdCount > 0 => {"src", "dst", "len", "pid"} \subseteq cfg

\* C8: every trigger of an operation of some kind (mailbox read, mailbox
\* write, DMA transfer) comes after a host write of 0 to that kind's
\* completion status, made since the previous trigger of the kind.
ClearedBeforeEveryTrigger == trigUncleared = {}

\* C9: a run that has left the DMA completion wait has written 0 to the DMA
\* status register by the time benchmark_run returns.
StatusClearedAfterCompletion ==
    (pc \in {"L162", "b71"} /\ phase = "Completed") => dmaCleared

\* C10: whenever the DMA status value the host polled has bit 0 set, that
\* poll ended the completion wait, whatever the other bits.
CompletionByMask == (lastPoll.val % 2 = 1) => lastPoll.left

\* C11: post-condition check.  When a run returns after a transfer whose
\* transferred length differs from the requested length, the transfer is
\* in state Completed, the run has gone on to its end, and the last thing
\* printed about the transferred length is a report of the mismatch.
TransferLengthChecked ==
    /\ (pc = "L162" /\ local.tx_len # len) =>
          (phase = "Completed" /\ cout.msg = "mismatch")
    /\ (pc = "b71" /\ cout.val # getCSR(JR_DMA_LEN_REG)) =>
          (phase = "Completed" /\ cout.msg = "mismatch")

\* C12: one-time setup.  The mailbox's virtual address has been written to
\* MMIO_VADDR_REG before any mailbox request is triggered, and over the
\* whole execution it is written exactly once.
VaddrPublishedOnce ==
    /\ (mmioBusy \/ outstanding \/ getCSR(MMIO_CTRL_REG) = 1) =>
          (vaddrWrites >= 1 /\ getCSR(MMIO_VADDR_REG) = mem)
    /\ vaddrWrites <= 1
    /\ pc = "m188" => vaddrWrites = 1

\* C13: idempotent re-run.  Against the device that resets and completes
\* deterministically, the second run ends having observed what the first
\* run observed: completion, the same final status read (line 154) and the
\* same transferred length (line 160).
RerunSameOutcome ==
    (pc = "L162" /\ run = 2) =>
        /\ obs1.done /\ phase = "Completed"
        /\ local.status = obs1.status
        /\ local.tx_len = obs1.tx_len

\* the second run returns after a full transfer, as the first did
RerunSameOutcome_witness ==
    /\ pc = "L162" /\ run = 2 /\ obs1.done
    /\ obs1.tx_len = len /\ local.tx_len = len /\ local.status = 1

\* the polling waits of the programs
WaitRd == mpc \in {"r64", "r65"}
WaitWr == mpc \in {"w90", "w91"}
WaitDmaIndirect == pc \in {"L145", "L149"}
WaitDmaBaseline == pc \in {"b59", "b60"}

\* steps in which the host writes a register with setCSR, and steps in
\* which it stores to the mailbox region
RegWrite ==
    \/ R50 \/ R61 \/ W76 \/ W87 \/ L44 \/ L97
    \/ B37 \/ B38 \/ B39 \/ B40 \/ B43
    \/ A77 \/ A78 \/ A79
MailboxWrite == R56 \/ R57 \/ R58 \/ W81 \/ W82 \/ W83 \/ W84
HostWrite == RegWrite \/ MailboxWrite

\* writes that are not part of a read_mmio call
WriteOutsideRead ==
    \/ W76 \/ W81 \/ W82 \/ W83 \/ W84 \/ W87 \/ L44 \/ L97

\* C14 as claimed: no timeout.  In each wait (mailbox read status, mailbox
\* write status, DMA status), while the polled status is not raised the
\* host stays in the wait and writes no register and no mailbox field.
NoTimeoutNoWrite ==
    [][ /\ (WaitRd /\ getCSR(MMIO_READ_STATUS_REG) # 1) => (WaitRd' /\ ~HostWrite)
        /\ (WaitWr /\ getCSR(MMIO_WRITE_STATUS_REG) # 1) => (WaitWr' /\ ~HostWrite)
        /\ (WaitDmaBaseline /\ getCSR(JR_DMA_STATUS_REG) # 1) =>
              (WaitDmaBaseline' /\ ~HostWrite)
        /\ (WaitDmaIndirect /\ dma[DMA_STATUS_REG] % 2 # 1) =>
              (WaitDmaIndirect' /\ ~HostWrite) ]_vars

\* C14 amended: as above, except that in the indirect variant's DMA wait
\* the host does write: the read_mmio calls that poll the DMA status clear
\* the read status, store the request and trigger it.  It writes nothing
\* else and does not leave the wait.
NoTimeout ==
    [][ /\ (WaitRd /\ getCSR(MMIO_READ_STATUS_REG) # 1) => (WaitRd' /\ ~HostWrite)
        /\ (WaitWr /\ getCSR(MMIO_WRITE_STATUS_REG) # 1) => (WaitWr' /\ ~HostWrite)
        /\ (WaitDmaBaseline /\ getCSR(JR_DMA_STATUS_REG) # 1) =>
              (WaitDmaBaseline' /\ ~HostWrite)
        /\ (WaitDmaIndirect /\ dma[DMA_STATUS_REG] % 2 # 1) =>
              (WaitDmaIndirect' /\ ~WriteOutsideRead) ]_vars

\* the indirect variant polls a DMA status that is not raised, and inside
\* that poll waits for a read status that is not raised either
NoTimeout_witness ==
    /\ WaitDmaIndirect /\ dma[DMA_STATUS_REG] = 0 /\ dmaBusy
    /\ local.polling_count >= 1
    /\ mpc = "r65" /\ getCSR(MMIO_READ_STATUS_REG) = 0

\* the allocation has been made and returned no memory
AllocFailed ==
    \/ variant \in {"indirect", "baseline"} /\ pc \notin {"m170", "n79"} /\ mem = 0
    \/ variant = "aes" /\ pc \notin {"a54", "a68", "exit_failure"} /\ tMem = 0
    \/ variant = "aes" /\ pc \notin {"a54", "a68", "a69", "exit_failure"} /\ rMem = 0

\* C15: abort on allocation failure.  In each of the three programs, once
\* the buffer allocation has returned no memory the host performs no
\* register write, no mailbox write and no transfer.
AbortOnAllocFailure ==
    [][AllocFailed => ~(HostWrite \/ A81)]_vars

\* the width of a field of the region: the opcode is one unsigned char
\* (lines 56, 81), every other field a uint64_t (lines 57-58, 70, 82-84)
FieldSize(off) == IF off = OFF_OPCODE THEN 1 ELSE 8
FieldBytes(off) == off .. (off + FieldSize(off) - 1)
BytesOf(fields) == UNION {FieldBytes(f) : f \in fields}
\* the bytes of the request structure, offsets 24..48
RequestBytes == OFF_OPCODE .. (OFF_DATA + FieldSize(OFF_DATA) - 1)

\* C16: frame of the request encoding.  The stores of a read request write
\* only opcode, address and length, leaving the write-data field and the
\* response field as they were; the stores of a write request leave the
\* response field as it was; and in no step does the host store to a byte
\* of the region outside offsets 24..48.
EncodingFrame ==
    [][ /\ (R56 \/ R57 \/ R58) =>
              /\ region'[OFF_DATA] = region[OFF_DATA]
              /\ region'[OFF_RESP] = region[OFF_RESP]
              /\ written' \subseteq {OFF_OPCODE, OFF_ADDR, OFF_LEN}
        /\ (mpc # "r61" /\ mpc' = "r61") => written' = {OFF_OPCODE, OFF_ADDR, OFF_LEN}
        /\ (W81 \/ W82 \/ W83 \/ W84) => region'[OFF_RESP] = region[OFF_RESP]
        /\ Host => /\ BytesOf(written') \subseteq RequestBytes
                   /\ \A f \in MailboxFields :
                         region'[f] # region[f] => FieldBytes(f) \subseteq RequestBytes
      ]_vars

\* a read request is encoded and the stale data field is still in place
EncodingFrame_witness ==
    /\ mpc = "r61"
    /\ written = {OFF_OPCODE, OFF_ADDR, OFF_LEN}
    /\ region[OFF_DATA] = Stale /\ region[OFF_RESP] = Stale

\* C17: frame of the register writes.  A mailbox call writes exactly two
\* device registers directly, the trigger register and its own completion
\* status register: read_mmio never writes the write status, write_mmio
\* never writes the read status, and neither writes the virtual-address or
\* the process-identifier register.
TwoRegistersPerCall ==
    [][ /\ mpc' \in ReadPcs =>
              regsWritten' \subseteq {MMIO_CTRL_REG, MMIO_READ_STATUS_REG}
        /\ mpc' \in WritePcs =>
              regsWritten' \subseteq {MMIO_CTRL_REG, MMIO_WRITE_STATUS_REG}
        /\ mpc' = "rret" => regsWritten' = {MMIO_CTRL_REG, MMIO_READ_STATUS_REG}
        /\ mpc' = "wret" => regsWritten' = {MMIO_CTRL_REG, MMIO_WRITE_STATUS_REG}
        /\ (Host /\ mpc \in ReadPcs) =>
              \A r \in CSRs \ {MMIO_CTRL_REG, MMIO_READ_STATUS_REG} : csr'[r] = csr[r]
        /\ (Host /\ mpc \in WritePcs) =>
              \A r \in CSRs \ {MMIO_CTRL_REG, MMIO_WRITE_STATUS_REG} : csr'[r] = csr[r]
      ]_vars

\* a write_mmio call is about to return, the read status still raised from
\* the read before it
TwoRegistersPerCall_witness ==
    /\ mpc = "wret"
    /\ regsWritten = {MMIO_CTRL_REG, MMIO_WRITE_STATUS_REG}
    /\ getCSR(MMIO_READ_STATUS_REG) = 1
    /\ getCSR(MMIO_VADDR_REG) = mem /\ getCSR(COYOTE_PID_REG) = ctid

\* the positions at which a program has ended: normal return of main, the
\* exception of a failed allocation, EXIT_FAILURE, a fault
Terminal == {"m188", "n87", "throw", "a95", "exit_failure", "fault"}

\* C18: termination under a responsive device.  When the device serves
\* every request and completes every transfer, every mailbox call returns,
\* the DMA completion wait ends and the whole program terminates.
Terminates ==
    /\ <>(pc \in Terminal)
    /\ (mpc \in {"r64", "r65"}) ~> (mpc = "rret")
    /\ (mpc \in {"w90", "w91"}) ~> (mpc = "wret")
    /\ (WaitDmaIndirect \/ WaitDmaBaseline) ~> (phase = "Completed")

\* C19: completion is real.  For any initial value of the DMA status
\* register, when the host has left the completion wait and holds the
\* transfer complete, the device has completed the transfer triggered in
\* that run: no transfer is still in flight.
CompletionIsReal == (phase = "Completed") => ~dmaBusy

\* the bytes of the allocation that the mailbox round trips use: the
\* response field and the request structure, offsets 16..48
MailboxBytes == {mem + b : b \in BytesOf(MailboxFields)}
\* the bytes the DMA engine has been programmed to move
DmaRange ==
    dma[DMA_SRC_ADDR_REG] .. (dma[DMA_SRC_ADDR_REG] + dma[DMA_LEN_REG] - 1)

\* C20: in the indirect variant, while a transfer is in flight the range
\* programmed into the DMA engine (start mem + 4096, length 1024) lies
\* inside the 16 KiB allocation and shares no byte with the mailbox bytes
\* at offsets 16..48, which the status polls keep using.
DmaRangeClearOfMailbox ==
    (variant = "indirect" /\ dmaBusy) =>
        /\ dma[DMA_SRC_ADDR_REG] = mem + 4096 /\ dma[DMA_LEN_REG] = 1024
        /\ DmaRange \subseteq mem .. (mem + AllocSize - 1)
        /\ DmaRange \cap MailboxBytes = {}

\* a status poll's request is with the device while the transfer is in
\* flight
DmaRangeClearOfMailbox_witness ==
    /\ variant = "indirect" /\ dmaBusy
    /\ pc = "L145" /\ mmioBusy
    /\ region[OFF_ADDR] = DMA_STATUS_REG

====
